---- MODULE Spec2Model ----
(***************************************************************************)
(* Contact-book backend (src/src/app.py): registration, login, logout,     *)
(* the login_required gate and the owner-scoped contact operations, over   *)
(* the three SQLite tables users, auth_tokens and contacts.                *)
(*                                                                         *)
(* Text values are sequences of one-character strings, so that str.strip() *)
(* and LIKE are computed, not assumed.  Each request handler is one        *)
(* action; the last request and its response are kept in resp.             *)
(***************************************************************************)
EXTENDS Integers, Sequences, FiniteSets, TLC

\* ---------------------------------------------------------------- bounds
\* tokens that login may generate in one behaviour
MaxTokens == 2
\* rows that may ever be inserted into contacts (AUTOINCREMENT never reuses)
MaxContacts == 2
\* connections that handle requests at the same time
MaxClients == 2

\* ---------------------------------------------------------------- text
\* characters removed by str.strip()
Whitespace == {" ", "\t", "\n", "\r"}

\* a JSON field that is not present in the request body (dict.get -> None)
Missing == <<"<none>">>

\* Python truthiness of data.get(field): None and '' are both falsy
Truthy(v) == v # Missing /\ v # <<>>

\* data.get(field, '') : the default applies only when the key is absent
GetDefault(v) == IF v = Missing THEN <<>> ELSE v

RECURSIVE LStrip(_)
LStrip(s) ==
    IF s = <<>> THEN <<>>
    ELSE IF Head(s) \in Whitespace THEN LStrip(Tail(s)) ELSE s

RECURSIVE RStrip(_)
RStrip(s) ==
    IF s = <<>> THEN <<>>
    ELSE IF s[Len(s)] \in Whitespace THEN RStrip(SubSeq(s, 1, Len(s) - 1)) ELSE s

\* no trimming at all
NoStrip(s) == s

\* str.strip()
Strip(s) == RStrip(LStrip(s))

\* hash_password: SHA-256 hex digest, modelled as a collision-free tagged digest
hash_password(password) == <<"sha256:">> \o password

\* a check that accepts every password
VerifyAnyPassword(password, password_hash) == TRUE

\* verify_password
verify_password(password, password_hash) == hash_password(password) = password_hash

\* ---------------------------------------------------------------- headers
\* Authorization header: absent, or a prefix of seven characters and the rest
NoHeader == [scheme |-> "", token |-> 0]
BearerHeader(t) == [scheme |-> "Bearer ", token |-> t]

\* ---------------------------------------------------------------- state
VARIABLES
    auth_tokens_exists, \* whether the database file holds a table auth_tokens
    users,              \* rows of table users (created_at is never read: left out)
    user_seq,           \* AUTOINCREMENT sequence of users
    auth_tokens,        \* rows of table auth_tokens
    issued,             \* number of tokens generated so far by secrets.token_hex
    contacts,           \* rows of table contacts
    contact_seq,        \* AUTOINCREMENT sequence of contacts
    now,                \* CURRENT_TIMESTAMP at the latest insert into contacts
    resp,               \* the last request and the response it got
    lock,               \* the connection holding SQLite's write lock, 0 for none
    conn                \* per connection: where its request handler stands

vars == << auth_tokens_exists, users, user_seq, auth_tokens, issued,
           contacts, contact_seq, now, resp, lock, conn >>

\* the connections' own state: untouched by a request that runs alone
threads == << lock, conn >>

Clients == 1..MaxClients

\* no row waiting to be written
NoRow == [username |-> <<>>, password_hash |-> <<>>]

\* a connection whose handler is not in the middle of a request; row is what
\* the handler is about to write: the values of its INSERT
Idle == [pc |-> "idle", user_id |-> 0, token |-> 0, row |-> NoRow]

db == << users, user_seq, auth_tokens, issued, contacts, contact_seq >>

\* request bodies that carry no contact fields
NoContactData == [present |-> FALSE, name |-> Missing, phone |-> Missing,
                  email |-> Missing, address |-> Missing]

\* jsonify(...), status : one record shape for every endpoint
Response(op, status, error, auth, uid) ==
    [op |-> op, status |-> status, error |-> error, auth |-> auth, uid |-> uid,
     username |-> Missing, password |-> Missing,
     user_id |-> 0, token |-> 0, cid |-> 0, id |-> 0,
     body |-> NoContactData, q |-> <<>>, data |-> <<>>]

\* init_db: creates users and contacts (and their indexes) if absent; it never
\* creates auth_tokens, so that table exists only in a database file that
\* already carried it.
Init ==
    /\ auth_tokens_exists \in BOOLEAN
    /\ users = {}
    /\ user_seq = 0
    /\ auth_tokens = {}
    /\ issued = 0
    /\ contacts = {}
    /\ contact_seq = 0
    /\ now = 0
    /\ resp = Response("init", 0, "", NoHeader, 0)
    /\ lock = 0
    /\ conn = [c \in Clients |-> Idle]

\* ---------------------------------------------------------------- tokens
\* the lookup without the test of the 'Bearer ' prefix
TokenOfAnyScheme(auth) ==
    IF auth = NoHeader \/ ~auth_tokens_exists THEN 0
    ELSE LET rows == { r \in auth_tokens : r.token = auth.token }
         IN  IF rows = {} THEN 0 ELSE (CHOOSE r \in rows : TRUE).user_id

\* get_user_id_from_token: the user bound to the bearer token, 0 for None.
\* A missing table makes the SELECT raise; the except clause returns None.
get_user_id_from_token(auth) ==
    IF auth = NoHeader \/ auth.scheme # "Bearer " THEN 0
    ELSE IF ~auth_tokens_exists THEN 0
    ELSE LET rows == { r \in auth_tokens : r.token = auth.token }
         IN  IF rows = {} THEN 0 ELSE (CHOOSE r \in rows : TRUE).user_id

\* The key of table auth_tokens.  No statement of app.py creates the table;
\* the persisted layout keys it by user (one live row per user).
AuthTokensKey(row) == row.user_id

\* a plain INSERT: the row of the same user stays
InsertToken(rows, user_id, token) ==
    rows \cup { [user_id |-> user_id, token |-> token] }

\* INSERT OR REPLACE INTO auth_tokens (user_id, token): rows that conflict with
\* the new row on the table's key are deleted, then the new row is inserted
InsertOrReplaceToken(rows, user_id, token) ==
    LET new == [user_id |-> user_id, token |-> token]
    IN  { r \in rows : AuthTokensKey(r) # AuthTokensKey(new) } \cup { new }

\* a DELETE that matches no row
DeleteNoToken(rows, token) == rows

\* a DELETE without the WHERE clause
DeleteAllTokens(rows, token) == {}

\* DELETE FROM auth_tokens WHERE token = ?
DeleteToken(rows, token) == { r \in rows : r.token # token }

\* the gate answering 403 instead
LoginRequired403(op, auth) ==
    /\ get_user_id_from_token(auth) = 0
    /\ resp' = Response(op, 403, "login required", auth, 0)
    /\ UNCHANGED << auth_tokens_exists, db, now >>

\* login_required, the branch that answers 401 without calling the wrapped
\* function; the other branch passes get_user_id_from_token(auth) as user_id
login_required(op, auth) ==
    /\ get_user_id_from_token(auth) = 0
    /\ resp' = Response(op, 401, "login required", auth, 0)
    /\ UNCHANGED << auth_tokens_exists, db, now >>

\* ---------------------------------------------------------------- auth
\* registration without the pre-check
UsernameNeverTaken(username) == FALSE

\* SELECT id FROM users WHERE username = ?
UsernameTaken(username) == \E u \in users : u.username = username

\* POST /api/register
register(username, password) ==
    LET name == Strip(username)
        reply(status, error) ==
            [Response("register", status, error, NoHeader, 0)
                EXCEPT !.username = username, !.password = password]
    IN
    IF ~Truthy(username) \/ ~Truthy(password) THEN
        /\ resp' = reply(400, "username and password required")
        /\ UNCHANGED << auth_tokens_exists, db, now >>
    ELSE IF Len(name) < 3 THEN
        /\ resp' = reply(400, "username too short")
        /\ UNCHANGED << auth_tokens_exists, db, now >>
    ELSE IF Len(password) < 6 THEN
        /\ resp' = reply(400, "password too short")
        /\ UNCHANGED << auth_tokens_exists, db, now >>
    ELSE IF UsernameTaken(name) THEN
        /\ resp' = reply(400, "username exists")
        /\ UNCHANGED << auth_tokens_exists, db, now >>
    ELSE
        /\ users' = users \cup { [id |-> user_seq + 1, username |-> name,
                                  password_hash |-> hash_password(password)] }
        /\ user_seq' = user_seq + 1
        /\ resp' = [reply(200, "") EXCEPT !.user_id = user_seq + 1]
        /\ UNCHANGED << auth_tokens_exists, auth_tokens, issued, contacts,
                        contact_seq, now >>

\* POST /api/login
login(username, password) ==
    LET name == Strip(username)
        found == { u \in users : u.username = name }
        reply(status, error) ==
            [Response("login", status, error, NoHeader, 0)
                EXCEPT !.username = username, !.password = password]
    IN
    IF ~Truthy(username) \/ ~Truthy(password) THEN
        /\ resp' = reply(400, "username and password required")
        /\ UNCHANGED << auth_tokens_exists, db, now >>
    ELSE IF found = {}
            \/ ~verify_password(password, (CHOOSE u \in found : TRUE).password_hash) THEN
        /\ resp' = reply(401, "bad username or password")
        /\ UNCHANGED << auth_tokens_exists, db, now >>
    ELSE IF ~auth_tokens_exists THEN
        \* the INSERT raises "no such table"; the generated token is dropped
        /\ resp' = reply(500, "login failed")
        /\ UNCHANGED << auth_tokens_exists, db, now >>
    ELSE
        LET user == CHOOSE u \in found : TRUE
            token == issued + 1   \* secrets.token_hex(32): a fresh value
        IN
        /\ issued < MaxTokens
        /\ auth_tokens' = InsertOrReplaceToken(auth_tokens, user.id, token)
        /\ issued' = issued + 1
        /\ resp' = [reply(200, "") EXCEPT !.token = token, !.user_id = user.id]
        /\ UNCHANGED << auth_tokens_exists, users, user_seq, contacts,
                        contact_seq, now >>

\* POST /api/logout
logout(auth) ==
    LET user_id == get_user_id_from_token(auth) IN
       /\ user_id # 0
       /\ auth_tokens' = DeleteToken(auth_tokens, auth.token)
       /\ resp' = Response("logout", 200, "", auth, user_id)
       /\ UNCHANGED << auth_tokens_exists, users, user_seq, issued, contacts,
                       contact_seq, now >>

\* ---------------------------------------------------------------- LIKE
\* SQLite LIKE folds the case of ASCII letters
Fold(c) ==
    CASE c = "A" -> "a" [] c = "B" -> "b" [] c = "C" -> "c" [] c = "D" -> "d"
      [] c = "E" -> "e" [] c = "F" -> "f" [] c = "G" -> "g" [] c = "H" -> "h"
      [] c = "I" -> "i" [] c = "J" -> "j" [] c = "K" -> "k" [] c = "L" -> "l"
      [] c = "M" -> "m" [] c = "N" -> "n" [] c = "O" -> "o" [] c = "P" -> "p"
      [] c = "Q" -> "q" [] c = "R" -> "r" [] c = "S" -> "s" [] c = "T" -> "t"
      [] c = "U" -> "u" [] c = "V" -> "v" [] c = "W" -> "w" [] c = "X" -> "x"
      [] c = "Y" -> "y" [] c = "Z" -> "z" [] OTHER -> c

\* text LIKE pattern: % matches any run of characters, _ any one character
RECURSIVE Like(_, _)
Like(text, pattern) ==
    IF pattern = <<>> THEN text = <<>>
    ELSE IF Head(pattern) = "%" THEN
        \/ Like(text, Tail(pattern))
        \/ text # <<>> /\ Like(Tail(text), pattern)
    ELSE IF text = <<>> THEN FALSE
    ELSE IF Head(pattern) = "_" THEN Like(Tail(text), Tail(pattern))
    ELSE Fold(Head(pattern)) = Fold(Head(text)) /\ Like(Tail(text), Tail(pattern))

\* f'%{search_query}%'
SearchPattern(search_query) == <<"%">> \o search_query \o <<"%">>

\* every sequence that lists the elements of S once each
RECURSIVE Orderings(_)
Orderings(S) ==
    IF S = {} THEN { <<>> }
    ELSE UNION { { <<x>> \o rest : rest \in Orderings(S \ {x}) } : x \in S }

\* ORDER BY created_at DESC: a row of the latest created_at comes first, rows
\* of equal created_at come in any order
RECURSIVE OrderByCreatedDesc(_)
OrderByCreatedDesc(rows) ==
    IF rows = {} THEN { <<>> }
    ELSE UNION { { <<x>> \o rest : rest \in OrderByCreatedDesc(rows \ {x}) } :
                 x \in { r \in rows :
                            \A o \in rows : r.created_at >= o.created_at } }

\* ---------------------------------------------------------------- contacts
\* GET /api/contacts?search=
get_contacts(auth, search) ==
    LET user_id == get_user_id_from_token(auth)
           search_query == Strip(search)
           pattern == SearchPattern(search_query)
           rows == IF search_query # <<>>
                   THEN { c \in contacts :
                            /\ c.user_id = user_id
                            /\ \/ Like(c.name, pattern) \/ Like(c.phone, pattern)
                               \/ Like(c.email, pattern) \/ Like(c.address, pattern) }
                   ELSE { c \in contacts : c.user_id = user_id }
       IN
       /\ user_id # 0
       /\ \E data \in OrderByCreatedDesc(rows) :
            resp' = [Response("list", 200, "", auth, user_id)
                        EXCEPT !.q = search, !.data = data]
       /\ UNCHANGED << auth_tokens_exists, db, now >>

\* the row add_contact inserts
NewContact(id, user_id, body, created_at) ==
    [id |-> id, user_id |-> user_id,
     name |-> Strip(body.name), phone |-> Strip(body.phone),
     email |-> Strip(GetDefault(body.email)),
     address |-> Strip(GetDefault(body.address)),
     created_at |-> created_at]

\* the pre-check without the owner condition
PhoneTakenByAnyone(user_id, phone) ==
    \E c \in contacts : c.phone = phone

\* SELECT id FROM contacts WHERE user_id = ? AND phone = ?  (the phone as sent)
PhoneTaken(user_id, phone) ==
    \E c \in contacts : c.user_id = user_id /\ c.phone = phone

\* POST /api/contacts.  Timestamps are only compared with each other, so the
\* clock is read as: the same second as the previous insert (now), or a later
\* one (now + 1).
add_contact(auth, body, clock) ==
    LET user_id == get_user_id_from_token(auth)
           reply(status, error) ==
               [Response("add", status, error, auth, user_id) EXCEPT !.body = body]
       IN
       /\ user_id # 0
       /\ IF ~body.present THEN
              /\ resp' = reply(400, "empty request")
              /\ UNCHANGED << auth_tokens_exists, db, now >>
          ELSE IF ~Truthy(body.name) \/ ~Truthy(body.phone) THEN
              /\ resp' = reply(400, "name and phone required")
              /\ UNCHANGED << auth_tokens_exists, db, now >>
          ELSE IF PhoneTaken(user_id, body.phone) THEN
              /\ resp' = reply(400, "phone exists")
              /\ UNCHANGED << auth_tokens_exists, db, now >>
          ELSE
              /\ contact_seq < MaxContacts
              /\ contacts' = contacts \cup
                    { NewContact(contact_seq + 1, user_id, body, clock) }
              /\ contact_seq' = contact_seq + 1
              /\ now' = clock
              /\ resp' = [reply(200, "") EXCEPT !.id = contact_seq + 1]
              /\ UNCHANGED << auth_tokens_exists, users, user_seq, auth_tokens,
                              issued >>

\* the same lookup without the owner condition
ContactOfAnyOwner(user_id, contact_id) ==
    \E c \in contacts : c.id = contact_id

\* SELECT id FROM contacts WHERE id = ? AND user_id = ?
OwnedContact(user_id, contact_id) ==
    \E c \in contacts : c.id = contact_id /\ c.user_id = user_id

\* SELECT id FROM contacts WHERE user_id = ? AND phone = ? AND id != ?
PhoneTakenByOther(user_id, phone, contact_id) ==
    \E c \in contacts : c.user_id = user_id /\ c.phone = phone /\ c.id # contact_id

\* an UPDATE whose WHERE clause names only the owner
UpdateRowsOfOwner(rows, user_id, contact_id, body) ==
    { IF c.user_id = user_id
      THEN [c EXCEPT !.name = Strip(body.name), !.phone = Strip(body.phone),
                     !.email = Strip(GetDefault(body.email)),
                     !.address = Strip(GetDefault(body.address))]
      ELSE c : c \in rows }

\* UPDATE contacts SET name, phone, email, address WHERE id = ? AND user_id = ?
UpdateRows(rows, user_id, contact_id, body) ==
    { IF c.id = contact_id /\ c.user_id = user_id
      THEN [c EXCEPT !.name = Strip(body.name), !.phone = Strip(body.phone),
                     !.email = Strip(GetDefault(body.email)),
                     !.address = Strip(GetDefault(body.address))]
      ELSE c : c \in rows }

\* PUT /api/contacts/<contact_id>
update_contact(auth, contact_id, body) ==
    LET user_id == get_user_id_from_token(auth)
           reply(status, error) ==
               [Response("update", status, error, auth, user_id)
                   EXCEPT !.body = body, !.cid = contact_id]
       IN
       /\ user_id # 0
       /\ IF ~body.present THEN
              /\ resp' = reply(400, "empty request")
              /\ UNCHANGED << auth_tokens_exists, db, now >>
          ELSE IF ~Truthy(body.name) \/ ~Truthy(body.phone) THEN
              /\ resp' = reply(400, "name and phone required")
              /\ UNCHANGED << auth_tokens_exists, db, now >>
          ELSE IF ~OwnedContact(user_id, contact_id) THEN
              /\ resp' = reply(404, "contact not found")
              /\ UNCHANGED << auth_tokens_exists, db, now >>
          ELSE IF PhoneTakenByOther(user_id, body.phone, contact_id) THEN
              /\ resp' = reply(400, "phone used by another contact")
              /\ UNCHANGED << auth_tokens_exists, db, now >>
          ELSE
              /\ contacts' = UpdateRows(contacts, user_id, contact_id, body)
              /\ resp' = reply(200, "")
              /\ UNCHANGED << auth_tokens_exists, users, user_seq, auth_tokens,
                              issued, contact_seq, now >>

\* DELETE FROM contacts WHERE id = ? AND user_id = ?
DeleteRows(rows, user_id, contact_id) ==
    { c \in rows : ~(c.id = contact_id /\ c.user_id = user_id) }

\* DELETE /api/contacts/<contact_id>
delete_contact(auth, contact_id) ==
    LET user_id == get_user_id_from_token(auth)
           reply(status, error) ==
               [Response("delete", status, error, auth, user_id)
                   EXCEPT !.cid = contact_id]
       IN
       /\ user_id # 0
       /\ IF ~OwnedContact(user_id, contact_id) THEN
              /\ resp' = reply(404, "contact not found")
              /\ UNCHANGED << auth_tokens_exists, db, now >>
          ELSE
              /\ contacts' = DeleteRows(contacts, user_id, contact_id)
              /\ resp' = reply(200, "")
              /\ UNCHANGED << auth_tokens_exists, users, user_seq, auth_tokens,
                              issued, contact_seq, now >>

\* the LIMIT clause of the suggestions query
SuggestionLimit == 5

\* SELECT DISTINCT name ... LIMIT 5: any SuggestionLimit of the distinct names
\* (all of them when there are fewer), in any order
LimitedNames(names) ==
    UNION { Orderings(pick) :
              pick \in { p \in SUBSET names :
                           \/ Cardinality(p) = SuggestionLimit
                           \/ p = names /\ Cardinality(p) < SuggestionLimit } }

\* GET /api/contacts/suggestions?q=
get_suggestions(auth, q) ==
    LET user_id == get_user_id_from_token(auth)
           search_query == Strip(q)
           names == { c.name : c \in { r \in contacts :
                          r.user_id = user_id
                          /\ Like(r.name, SearchPattern(search_query)) } }
       IN
       /\ user_id # 0
       /\ IF search_query = <<>> THEN
              resp' = [Response("suggest", 200, "", auth, user_id) EXCEPT !.q = q]
          ELSE
              \E data \in LimitedNames(names) :
                 resp' = [Response("suggest", 200, "", auth, user_id)
                             EXCEPT !.q = q, !.data = data]
       /\ UNCHANGED << auth_tokens_exists, db, now >>

\* ---------------------------------------------------------------- requests
\* the endpoints as routed: the gate, then the wrapped function
\* (a request handled from start to end with no other request in between)
Register(U, P) ==
    /\ UNCHANGED threads
    /\ \E u \in U, p \in P : register(u, p)

Login(U, P) ==
    /\ UNCHANGED threads
    /\ \E u \in U, p \in P : login(u, p)

Logout(H) ==
    /\ UNCHANGED threads
    /\ \E h \in H : login_required("logout", h) \/ logout(h)

GetContacts(H, Q) ==
    /\ UNCHANGED threads
    /\ \E h \in H : login_required("list", h) \/ \E q \in Q : get_contacts(h, q)

AddContact(H, B, T) ==
    /\ UNCHANGED threads
    /\ \E h \in H : login_required("add", h)
                       \/ \E b \in B, t \in T : add_contact(h, b, t)

UpdateContact(H, I, B) ==
    /\ UNCHANGED threads
    /\ \E h \in H : login_required("update", h)
                       \/ \E i \in I, b \in B : update_contact(h, i, b)

DeleteContact(H, I) ==
    /\ UNCHANGED threads
    /\ \E h \in H : login_required("delete", h)
                       \/ \E i \in I : delete_contact(h, i)

GetSuggestions(H, Q) ==
    /\ UNCHANGED threads
    /\ \E h \in H : login_required("suggest", h)
                       \/ \E q \in Q : get_suggestions(h, q)

\* ---------------------------------------------------------------- threads
\* login, one store access at a time, on connection c.
\* First access: the SELECT on users and the password check.
LoginSelect(c, username, password) ==
    LET name == Strip(username)
        found == { u \in users : u.username = name }
        reply(status, error) ==
            [Response("login", status, error, NoHeader, 0)
                EXCEPT !.username = username, !.password = password]
    IN
    /\ conn[c].pc = "idle"
    /\ IF ~Truthy(username) \/ ~Truthy(password) THEN
           /\ resp' = reply(400, "username and password required")
           /\ UNCHANGED conn
       ELSE IF found = {}
               \/ ~verify_password(password,
                                   (CHOOSE u \in found : TRUE).password_hash) THEN
           /\ resp' = reply(401, "bad username or password")
           /\ UNCHANGED conn
       ELSE
           /\ conn' = [conn EXCEPT ![c] = [Idle EXCEPT
                                  !.pc = "verified",
                                  !.user_id = (CHOOSE u \in found : TRUE).id]]
           /\ UNCHANGED resp
    /\ UNCHANGED << auth_tokens_exists, db, now, lock >>

\* Second access: the token is generated and INSERT OR REPLACE opens the write
\* transaction, which takes SQLite's write lock; the row is not yet committed.
LoginInsert(c) ==
    /\ conn[c].pc = "verified"
    /\ auth_tokens_exists
    /\ lock = 0
    /\ issued < MaxTokens
    /\ lock' = c
    /\ issued' = issued + 1
    /\ conn' = [conn EXCEPT ![c].pc = "inserted", ![c].token = issued + 1]
    /\ UNCHANGED << auth_tokens_exists, users, user_seq, auth_tokens, contacts,
                    contact_seq, now, resp >>

\* The INSERT raises: there is no table, or another connection kept the write
\* lock for the whole busy timeout.  The except clause answers 500.
LoginError(c) ==
    /\ conn[c].pc = "verified"
    /\ ~auth_tokens_exists \/ lock \notin {0, c}
    /\ conn' = [conn EXCEPT ![c] = Idle]
    /\ resp' = Response("login", 500, "login failed", NoHeader, 0)
    /\ UNCHANGED << auth_tokens_exists, db, now, lock >>

\* Third access: conn.commit() publishes the row and releases the lock
LoginCommit(c) ==
    /\ conn[c].pc = "inserted"
    /\ lock = c
    /\ auth_tokens' = InsertOrReplaceToken(auth_tokens, conn[c].user_id, conn[c].token)
    /\ lock' = 0
    /\ conn' = [conn EXCEPT ![c] = Idle]
    /\ resp' = [Response("login", 200, "", NoHeader, 0)
                   EXCEPT !.token = conn[c].token, !.user_id = conn[c].user_id]
    /\ UNCHANGED << auth_tokens_exists, users, user_seq, issued, contacts,
                    contact_seq, now >>

\* register, one store access at a time, on connection c.
\* First access: the validation and the SELECT on users.
RegisterSelect(c, username, password) ==
    LET name == Strip(username)
        reply(status, error) ==
            [Response("register", status, error, NoHeader, 0)
                EXCEPT !.username = username, !.password = password]
    IN
    /\ conn[c].pc = "idle"
    /\ IF ~Truthy(username) \/ ~Truthy(password) THEN
           /\ resp' = reply(400, "username and password required")
           /\ UNCHANGED conn
       ELSE IF Len(name) < 3 THEN
           /\ resp' = reply(400, "username too short")
           /\ UNCHANGED conn
       ELSE IF Len(password) < 6 THEN
           /\ resp' = reply(400, "password too short")
           /\ UNCHANGED conn
       ELSE IF UsernameTaken(name) THEN
           /\ resp' = reply(400, "username exists")
           /\ UNCHANGED conn
       ELSE
           /\ conn' = [conn EXCEPT ![c] = [Idle EXCEPT
                          !.pc = "reg_checked",
                          !.row = [username |-> name,
                                   password_hash |-> hash_password(password)]]]
           /\ UNCHANGED resp
    /\ UNCHANGED << auth_tokens_exists, db, now, lock >>

\* a table users without the UNIQUE constraint
NoUniqueConstraint(rows, username) == FALSE

\* username TEXT UNIQUE NOT NULL: an INSERT of a username that a committed row
\* carries raises IntegrityError
UniqueViolation(rows, username) == \E u \in rows : u.username = username

\* Second access: the INSERT opens the write transaction.  If the username was
\* committed since the SELECT, the UNIQUE constraint makes the INSERT raise and
\* the except clause answers 500; otherwise the row waits for the commit.
RegisterInsert(c) ==
    /\ conn[c].pc = "reg_checked"
    /\ lock = 0
    /\ IF UniqueViolation(users, conn[c].row.username) THEN
           /\ conn' = [conn EXCEPT ![c] = Idle]
           /\ resp' = [Response("register", 500, "register failed", NoHeader, 0)
                          EXCEPT !.username = conn[c].row.username]
           /\ UNCHANGED lock
       ELSE
           /\ lock' = c
           /\ conn' = [conn EXCEPT ![c].pc = "reg_inserted"]
           /\ UNCHANGED resp
    /\ UNCHANGED << auth_tokens_exists, db, now >>

\* The INSERT raises "database is locked": another connection kept the write
\* lock for the whole busy timeout.
RegisterError(c) ==
    /\ conn[c].pc = "reg_checked"
    /\ lock \notin {0, c}
    /\ conn' = [conn EXCEPT ![c] = Idle]
    /\ resp' = [Response("register", 500, "register failed", NoHeader, 0)
                   EXCEPT !.username = conn[c].row.username]
    /\ UNCHANGED << auth_tokens_exists, db, now, lock >>

\* Third access: conn.commit() publishes the user and releases the lock
RegisterCommit(c) ==
    /\ conn[c].pc = "reg_inserted"
    /\ lock = c
    /\ users' = users \cup { [id |-> user_seq + 1,
                              username |-> conn[c].row.username,
                              password_hash |-> conn[c].row.password_hash] }
    /\ user_seq' = user_seq + 1
    /\ lock' = 0
    /\ conn' = [conn EXCEPT ![c] = Idle]
    /\ resp' = [Response("register", 200, "", NoHeader, 0)
                   EXCEPT !.username = conn[c].row.username,
                          !.user_id = user_seq + 1]
    /\ UNCHANGED << auth_tokens_exists, auth_tokens, issued, contacts,
                    contact_seq, now >>

\* add_contact, one store access at a time, on connection c.
\* First access: the gate has resolved the caller; the presence checks and the
\* SELECT on contacts.
AddSelect(c, auth, body) ==
    LET user_id == get_user_id_from_token(auth)
        reply(status, error) ==
            [Response("add", status, error, auth, user_id) EXCEPT !.body = body]
    IN
    /\ conn[c].pc = "idle"
    /\ user_id # 0
    /\ IF ~body.present THEN
           /\ resp' = reply(400, "empty request")
           /\ UNCHANGED conn
       ELSE IF ~Truthy(body.name) \/ ~Truthy(body.phone) THEN
           /\ resp' = reply(400, "name and phone required")
           /\ UNCHANGED conn
       ELSE IF PhoneTaken(user_id, body.phone) THEN
           /\ resp' = reply(400, "phone exists")
           /\ UNCHANGED conn
       ELSE
           /\ conn' = [conn EXCEPT ![c] = [Idle EXCEPT
                          !.pc = "add_checked",
                          !.user_id = user_id,
                          !.token = auth.token,
                          !.row = body]]
           /\ UNCHANGED resp
    /\ UNCHANGED << auth_tokens_exists, db, now, lock >>

\* a table contacts that refuses a second row of the same owner and phone
InsertContactUniquePhone(rows, row) ==
    IF \E c \in rows : c.user_id = row.user_id /\ c.phone = row.phone
    THEN rows ELSE rows \cup { row }

\* INSERT INTO contacts: the table has no constraint on phone, and its indexes
\* are not unique, so the row is added whatever the table holds
InsertContact(rows, row) == rows \cup { row }

\* Second access: the INSERT opens the write transaction
AddInsert(c) ==
    /\ conn[c].pc = "add_checked"
    /\ lock = 0
    /\ contact_seq < MaxContacts
    /\ lock' = c
    /\ conn' = [conn EXCEPT ![c].pc = "add_inserted"]
    /\ UNCHANGED << auth_tokens_exists, db, now, resp >>

\* The INSERT raises "database is locked"; the except clause answers 500
AddError(c) ==
    /\ conn[c].pc = "add_checked"
    /\ lock \notin {0, c}
    /\ conn' = [conn EXCEPT ![c] = Idle]
    /\ resp' = [Response("add", 500, "add failed",
                         BearerHeader(conn[c].token), conn[c].user_id)
                   EXCEPT !.body = conn[c].row]
    /\ UNCHANGED << auth_tokens_exists, db, now, lock >>

\* Third access: conn.commit() publishes the contact and releases the lock
AddCommit(c) ==
    /\ conn[c].pc = "add_inserted"
    /\ lock = c
    /\ contacts' = InsertContact(contacts,
                      NewContact(contact_seq + 1, conn[c].user_id, conn[c].row,
                                 now + 1))
    /\ contact_seq' = contact_seq + 1
    /\ now' = now + 1
    /\ lock' = 0
    /\ conn' = [conn EXCEPT ![c] = Idle]
    /\ resp' = [Response("add", 200, "", BearerHeader(conn[c].token),
                         conn[c].user_id)
                   EXCEPT !.body = conn[c].row, !.id = contact_seq + 1]
    /\ UNCHANGED << auth_tokens_exists, users, user_seq, auth_tokens, issued >>

\* ---------------------------------------------------------------- inputs
Abc == <<"a", "b", "c">>
Abd == <<"a", "b", "d">>
Secret == <<"s", "e", "c", "r", "e", "t">>
Passwd == <<"p", "a", "s", "s", "w", "d">>

AuthHeaders ==
    { NoHeader, [scheme |-> "bearer ", token |-> 1] }
        \cup { BearerHeader(t) : t \in 1..MaxTokens }

ContactBody(name, phone) ==
    [present |-> TRUE, name |-> name, phone |-> phone,
     email |-> Missing, address |-> Missing]

ContactBodies ==
    { ContactBody(<<"A">>, <<"1">>), ContactBody(<<"A">>, <<"1", " ">>),
      ContactBody(<<"A">>, <<"2">>) }

ContactIds == 1..MaxContacts

UpdateBodies ==
    { ContactBody(<<"A">>, <<"1", " ">>), ContactBody(<<"A">>, <<"2">>) }

\* ---------------------------------------------------------------- system
\* every endpoint, two users
Next ==
    \/ Register({Abc, Abd}, {Secret})
    \/ Login({Abc, Abd}, {Secret})
    \/ Logout(AuthHeaders)
    \/ GetContacts(AuthHeaders, {<<>>, <<"a">>})
    \/ AddContact(AuthHeaders, ContactBodies, {now + 1})
    \/ UpdateContact(AuthHeaders, ContactIds, UpdateBodies)
    \/ DeleteContact(AuthHeaders, ContactIds)
    \/ GetSuggestions(AuthHeaders, {<<"a">>})

Spec == Init /\ [][Next]_vars

\* the authentication endpoints over a wider range of credentials
UsernameInputs ==
    { Abc, <<" ">> \o Abc, Abd, <<"a", "b", " ">>, Missing }

PasswordInputs == { Secret, Passwd, <<"s", "h", "o", "r", "t">>, Missing }

NextAuth ==
    \/ Register(UsernameInputs, PasswordInputs)
    \/ Login(UsernameInputs, PasswordInputs)
    \/ Logout(AuthHeaders \cup { [scheme |-> "", token |-> 1] })

SpecAuth == Init /\ [][NextAuth]_vars

\* logins that interleave at the store accesses; registration and logout run
\* while no write transaction is open
NextThreads ==
    \/ lock = 0 /\ Register({Abc, Abd}, {Secret})
    \/ \E c \in Clients, u \in {Abc, Abd}, p \in {Secret, Passwd} :
          LoginSelect(c, u, p)
    \/ \E c \in Clients : LoginInsert(c)
    \/ \E c \in Clients : LoginError(c)
    \/ \E c \in Clients : LoginCommit(c)
    \/ lock = 0 /\ Logout(AuthHeaders)

SpecThreads == Init /\ [][NextThreads]_vars

\* the contact endpoints of one user over a wider range of bodies and terms:
\* absent and whitespace-only fields, an email, the LIKE pattern characters
BlankName == ContactBody(<<" ">>, <<"2">>)
BlankPhone == ContactBody(<<"B">>, <<" ">>)

RichBodies ==
    { NoContactData, ContactBody(Missing, <<"1">>), ContactBody(<<"A">>, <<"1">>),
      [ContactBody(<<"B">>, <<"2">>) EXCEPT !.email = <<"1">>],
      BlankName, BlankPhone }

SearchTerms == { <<>>, <<" ">>, <<"1">>, <<"_">>, <<"%">> }

NextContacts ==
    \/ Register({Abc}, {Secret})
    \/ Login({Abc}, {Secret})
    \/ GetContacts(AuthHeaders, SearchTerms)
    \/ AddContact(AuthHeaders, RichBodies, {now, now + 1})
    \/ UpdateContact(AuthHeaders, ContactIds, RichBodies)
    \/ DeleteContact(AuthHeaders, ContactIds)
    \/ GetSuggestions(AuthHeaders, SearchTerms)

SpecContacts == Init /\ [][NextContacts]_vars

\* registrations of two usernames and inserts of contacts of one user that
\* interleave at the store accesses; logins run while no write transaction is
\* open
RaceBodies == { ContactBody(<<"A">>, <<"1">>), ContactBody(<<"B">>, <<"2">>) }

NextRace ==
    \/ \E c \in Clients, u \in {Abc, Abd}, p \in {Secret} : RegisterSelect(c, u, p)
    \/ \E c \in Clients : RegisterInsert(c)
    \/ \E c \in Clients : RegisterError(c)
    \/ \E c \in Clients : RegisterCommit(c)
    \/ lock = 0 /\ Login({Abc}, {Secret})
    \/ \E c \in Clients, t \in 1..MaxTokens, b \in RaceBodies :
          AddSelect(c, BearerHeader(t), b)
    \/ \E c \in Clients : AddInsert(c)
    \/ \E c \in Clients : AddError(c)
    \/ \E c \in Clients : AddCommit(c)

SpecRace == Init /\ [][NextRace]_vars

\* ---------------------------------------------------------------- properties
\* a request body that passes the presence checks of add_contact/update_contact
ValidBody(body) == body.present /\ Truthy(body.name) /\ Truthy(body.phone)

\* C1: owner isolation.  Every row a user's list returns is owned by that user,
\* every name suggested to a user is the name of one of that user's contacts,
\* and an update (with valid fields) or a delete aimed at a contact that exists
\* and belongs to another user is answered 404 "contact not found" and leaves
\* the contacts table as it was.
OwnerIsolation ==
    [][ /\ (resp'.op = "list" /\ resp'.status = 200) =>
              \A i \in DOMAIN resp'.data : resp'.data[i].user_id = resp'.uid
        /\ (resp'.op = "suggest" /\ resp'.status = 200) =>
              \A i \in DOMAIN resp'.data :
                 \E c \in contacts : c.user_id = resp'.uid /\ c.name = resp'.data[i]
        /\ ( /\ resp'.op \in {"update", "delete"}
             /\ resp'.uid # 0
             /\ resp'.op = "update" => ValidBody(resp'.body)
             /\ \E c \in contacts : c.id = resp'.cid /\ c.user_id # resp'.uid )
           => /\ resp'.status = 404
              /\ resp'.error = "contact not found"
              /\ contacts' = contacts
      ]_vars

\* C1 witness: a user's update of another user's existing contact was refused
OwnerIsolationWitness ==
    /\ resp.op = "update"
    /\ resp.status = 404
    /\ \E c \in contacts : c.id = resp.cid /\ c.user_id # resp.uid /\ resp.uid # 0

\* C2: a login with the credentials of a registered user succeeds, and the
\* token it returns resolves to that user's id.
RegisterThenLogin ==
    \A u \in users :
        ( /\ resp.op = "login"
          /\ Truthy(resp.username) /\ Truthy(resp.password)
          /\ u.username = Strip(resp.username)
          /\ u.password_hash = hash_password(resp.password) )
        => /\ resp.status = 200
           /\ get_user_id_from_token(BearerHeader(resp.token)) = u.id

\* C3: token replacement.  When a login succeeds, the token its user held
\* before no longer resolves to any user, and the token just returned resolves
\* to that user.
TokenReplacement ==
    [][ (resp'.op = "login" /\ resp'.status = 200 /\ resp' # resp) =>
           /\ \A r \in auth_tokens :
                 r.user_id = resp'.user_id =>
                    get_user_id_from_token(BearerHeader(r.token))' = 0
           /\ \A t \in 1..MaxTokens :
                 t = resp'.token =>
                    get_user_id_from_token(BearerHeader(t))' = resp'.user_id
      ]_vars

\* C3 witness: a second successful login of the only registered user
TokenReplacementWitness ==
    /\ resp.op = "login"
    /\ resp.status = 200
    /\ resp.token = 2
    /\ Cardinality(users) = 1

\* C4: at most one token per user.  In every state reached by logins that
\* interleave at the store accesses, no two rows of auth_tokens are bound to
\* the same user.
OneTokenPerUser ==
    \A r1, r2 \in auth_tokens : r1.user_id = r2.user_id => r1 = r2

\* C4 witness: two logins of a user who already has a token are in flight at
\* once: one holds its uncommitted row, the other has passed the password check
OneTokenPerUserWitness ==
    \E c1, c2 \in Clients :
        /\ conn[c1].pc = "inserted"
        /\ conn[c2].pc = "verified"
        /\ conn[c1].user_id = conn[c2].user_id
        /\ \E r \in auth_tokens : r.user_id = conn[c1].user_id

\* the endpoints behind login_required
GatedOps == {"logout", "list", "add", "update", "delete", "suggest"}

\* the Authorization value names no user: absent, not starting with 'Bearer ',
\* or carrying a token that no row of auth_tokens holds
Unauthenticated(auth) ==
    \/ auth = NoHeader
    \/ auth.scheme # "Bearer "
    \/ \A r \in auth_tokens : r.token # auth.token

\* C5: logout revokes.  After a logout that succeeds, the token it presented
\* resolves to no user; a token that was issued and resolves to no user never
\* resolves again; and a gated request that presents such a token gets 401.
LogoutRevokes ==
    [][ /\ (resp'.op = "logout" /\ resp'.status = 200) =>
              \A t \in 1..MaxTokens :
                 t = resp'.auth.token => get_user_id_from_token(BearerHeader(t))' = 0
        /\ \A t \in 1..issued :
              get_user_id_from_token(BearerHeader(t)) = 0 =>
                 get_user_id_from_token(BearerHeader(t))' = 0
        /\ \A t \in 1..issued :
              ( /\ resp' # resp
                /\ resp'.op \in GatedOps
                /\ resp'.auth = BearerHeader(t)
                /\ get_user_id_from_token(BearerHeader(t)) = 0 )
              => resp'.status = 401
      ]_vars

\* C5 witness: a logout has succeeded and its token no longer resolves
LogoutRevokesWitness ==
    /\ resp.op = "logout"
    /\ resp.status = 200
    /\ resp.auth.token \in 1..issued
    /\ get_user_id_from_token(resp.auth) = 0

RequestGate ==
    [][ (resp' # resp /\ resp'.op \in GatedOps) =>
           /\ Unauthenticated(resp'.auth) =>
                 /\ resp'.status = 401
                 /\ resp'.error = "login required"
                 /\ resp'.uid = 0
                 /\ UNCHANGED << users, user_seq, auth_tokens, issued, contacts,
                                 contact_seq >>
           /\ ~Unauthenticated(resp'.auth) =>
                 /\ resp'.status # 401
                 /\ \A r \in auth_tokens :
                       r.token = resp'.auth.token => resp'.uid = r.user_id
      ]_vars

\* C7 witness: a request to add a contact whose header has a malformed prefix
\* in front of a live token was refused, with contacts already stored
RequestGateWitness ==
    /\ resp.op = "add"
    /\ resp.status = 401
    /\ resp.auth.scheme = "bearer "
    /\ \E r \in auth_tokens : r.token = resp.auth.token
    /\ contacts # {}

\* C8: duplicate username.  A registration whose username, trimmed, is the
\* username of a stored user is answered 400 and leaves the users table as it
\* was; when the request is otherwise valid (a password of at least 6
\* characters) the error is "username exists".
DuplicateUsername ==
    [][ ( /\ resp' # resp
          /\ resp'.op = "register"
          /\ Truthy(resp'.username)
          /\ \E u \in users : u.username = Strip(resp'.username) )
        => /\ resp'.status = 400
           /\ users' = users
           /\ (Truthy(resp'.password) /\ Len(resp'.password) >= 6)
                 => resp'.error = "username exists"
      ]_vars

\* C8 witness: a username that differs from a stored one only by surrounding
\* whitespace was refused as a duplicate
DuplicateUsernameWitness ==
    /\ resp.op = "register"
    /\ resp.error = "username exists"
    /\ resp.username # Strip(resp.username)

\* C9: duplicate phone per owner.  A valid add_contact request whose phone is the
\* stored phone of one of the caller's contacts is answered 400 "phone exists"
\* and adds nothing; one whose phone is stored only for contacts of other users
\* is answered 200 and adds a contact of the caller with that phone.
DuplicatePhone ==
    [][ ( /\ resp' # resp
          /\ resp'.op = "add"
          /\ resp'.uid # 0
          /\ ValidBody(resp'.body) )
        => /\ (\E c \in contacts :
                  c.user_id = resp'.uid /\ c.phone = resp'.body.phone)
              => /\ resp'.status = 400
                 /\ resp'.error = "phone exists"
                 /\ contacts' = contacts
           /\ ( /\ \E c \in contacts :
                     c.user_id # resp'.uid /\ c.phone = resp'.body.phone
                /\ \A c \in contacts :
                     c.user_id = resp'.uid => c.phone # resp'.body.phone )
              => /\ resp'.status = 200
                 /\ \E c \in contacts' \ contacts :
                       /\ c.id = resp'.id
                       /\ c.user_id = resp'.uid
                       /\ c.phone = resp'.body.phone
                 /\ contacts \subseteq contacts'
      ]_vars

\* C9 witness: a phone was refused for the caller as a duplicate while contacts
\* of two different users hold that same phone
DuplicatePhoneWitness ==
    /\ resp.op = "add"
    /\ resp.error = "phone exists"
    /\ \E c1, c2 \in contacts :
          /\ c1.user_id = resp.uid
          /\ c2.user_id # resp.uid
          /\ c1.phone = resp.body.phone
          /\ c2.phone = resp.body.phone

\* C10: per-owner phone uniqueness.  No two stored contacts of the same owner
\* have the same phone.
PhoneUniquePerOwner ==
    \A c1, c2 \in contacts :
        (c1.user_id = c2.user_id /\ c1.phone = c2.phone) => c1.id = c2.id

\* C11: contact validation.  An add_contact or update_contact request whose
\* name or phone is absent or empty after trimming whitespace is answered 400
\* and changes nothing; and every stored contact has a non-empty name and a
\* non-empty phone.
ContactFieldsRequired ==
    /\ [](\A c \in contacts : c.name # <<>> /\ c.phone # <<>>)
    /\ [][ ( /\ resp' # resp
             /\ resp'.op \in {"add", "update"}
             /\ resp'.uid # 0
             /\ \/ ~resp'.body.present
                \/ Strip(GetDefault(resp'.body.name)) = <<>>
                \/ Strip(GetDefault(resp'.body.phone)) = <<>> )
           => /\ resp'.status = 400
              /\ UNCHANGED << users, auth_tokens, contacts >>
         ]_vars

\* C12: invalid credentials are uniform.  A login with both fields present whose
\* trimmed username is not stored, and one whose username is stored with a
\* different password, get the same answer, 401 "bad username or password";
\* neither issues a token, and every token resolves after it as it did before.
InvalidCredentialsUniform ==
    [][ ( /\ resp' # resp
          /\ resp'.op = "login"
          /\ Truthy(resp'.username) /\ Truthy(resp'.password)
          /\ \/ \A u \in users : u.username # Strip(resp'.username)
             \/ \E u \in users : /\ u.username = Strip(resp'.username)
                                 /\ u.password_hash # hash_password(resp'.password) )
        => /\ resp'.status = 401
           /\ resp'.error = "bad username or password"
           /\ resp'.token = 0
           /\ UNCHANGED << auth_tokens, issued >>
           /\ \A t \in 1..MaxTokens :
                 get_user_id_from_token(BearerHeader(t))'
                    = get_user_id_from_token(BearerHeader(t))
      ]_vars

\* C12 witness: a stored user's login with a wrong password was refused while
\* that user's token is live
InvalidCredentialsWitness ==
    /\ resp.op = "login"
    /\ resp.status = 401
    /\ \E u \in users :
          /\ u.username = Strip(resp.username)
          /\ u.password_hash # hash_password(resp.password)
          /\ \E r \in auth_tokens : r.user_id = u.id

\* C13: absent and foreign contacts are indistinguishable.  An update (with
\* valid fields) or a delete by a logged-in user of a contact id that the user
\* does not own is answered 404 "contact not found" and changes no table,
\* whether no contact has that id or a contact of another user has it.
NotFoundUniform ==
    [][ ( /\ resp' # resp
          /\ resp'.op \in {"update", "delete"}
          /\ resp'.uid # 0
          /\ resp'.op = "update" => ValidBody(resp'.body)
          /\ \/ \A c \in contacts : c.id # resp'.cid
             \/ \E c \in contacts : c.id = resp'.cid /\ c.user_id # resp'.uid )
        => /\ resp'.status = 404
           /\ resp'.error = "contact not found"
           /\ resp'.id = 0 /\ resp'.data = <<>>
           /\ UNCHANGED << users, user_seq, auth_tokens, issued, contacts,
                           contact_seq >>
      ]_vars

\* C13 witness: a delete of an id that no contact has any more was answered 404
\* while a contact of another user is stored
NotFoundUniformWitness ==
    /\ resp.op = "delete"
    /\ resp.status = 404
    /\ resp.cid <= contact_seq
    /\ \A c \in contacts : c.id # resp.cid
    /\ \E c \in contacts : c.user_id # resp.uid

\* term occurs in text as a run of consecutive characters
Contains(text, term) ==
    \E i \in 0..(Len(text) - Len(term)) : SubSeq(text, i + 1, i + Len(term)) = term

\* the rows of a response, as a set
Rows(data) == { data[i] : i \in DOMAIN data }

\* C14: listing.  A list with the empty term returns exactly the caller's
\* contacts, each once, latest creation time first; a list with a non-empty
\* term returns exactly those of the caller's contacts in which the term occurs
\* as a substring of the name, phone, email or address.
ListContacts ==
    [][ (resp' # resp /\ resp'.op = "list" /\ resp'.status = 200) =>
           /\ Len(resp'.data) = Cardinality(Rows(resp'.data))
           /\ \A i, j \in DOMAIN resp'.data :
                 i < j => resp'.data[i].created_at >= resp'.data[j].created_at
           /\ resp'.q = <<>> =>
                 Rows(resp'.data) = { c \in contacts : c.user_id = resp'.uid }
           /\ resp'.q # <<>> =>
                 Rows(resp'.data) =
                    { c \in contacts :
                         /\ c.user_id = resp'.uid
                         /\ \/ Contains(c.name, resp'.q)
                            \/ Contains(c.phone, resp'.q)
                            \/ Contains(c.email, resp'.q)
                            \/ Contains(c.address, resp'.q) }
      ]_vars

\* C15: suggestions.  A suggestion request with the empty term returns the
\* empty sequence; one with a non-empty term returns at most 5 names, no name
\* twice, each the name of one of the caller's contacts containing the term as
\* a substring.
Suggestions ==
    [][ (resp' # resp /\ resp'.op = "suggest" /\ resp'.status = 200) =>
           /\ resp'.q = <<>> => resp'.data = <<>>
           /\ resp'.q # <<>> =>
                 /\ Len(resp'.data) <= 5
                 /\ \A i, j \in DOMAIN resp'.data :
                       i # j => resp'.data[i] # resp'.data[j]
                 /\ \A i \in DOMAIN resp'.data :
                       \E c \in contacts :
                          /\ c.user_id = resp'.uid
                          /\ c.name = resp'.data[i]
                          /\ Contains(c.name, resp'.q)
      ]_vars

\* C16: registration validation.  A registration with the username or the
\* password absent or empty, with a trimmed username of fewer than 3 characters
\* or with a password of fewer than 6 characters is answered 400 and creates no
\* user; a registration that succeeds stores the trimmed username; and every
\* stored username has at least 3 characters and no whitespace at either end.
RegisterValidation ==
    /\ [](\A u \in users :
             /\ Len(u.username) >= 3
             /\ Head(u.username) \notin Whitespace
             /\ u.username[Len(u.username)] \notin Whitespace)
    /\ [][ (resp' # resp /\ resp'.op = "register") =>
              /\ ( \/ ~Truthy(resp'.username)
                   \/ ~Truthy(resp'.password)
                   \/ Len(Strip(resp'.username)) < 3
                   \/ Len(resp'.password) < 6 )
                 => /\ resp'.status = 400
                    /\ users' = users
                    /\ user_seq' = user_seq
              /\ resp'.status = 200 =>
                    \E u \in users' \ users :
                       /\ u.id = resp'.user_id
                       /\ u.username = Strip(resp'.username)
         ]_vars

\* C16 witness: with a user already stored, a username of three characters
\* that trims to two was refused as too short
RegisterValidationWitness ==
    /\ resp.op = "register"
    /\ resp.status = 400
    /\ resp.error = "username too short"
    /\ Len(resp.username) = 3
    /\ resp.password = Secret
    /\ users # {}

\* C17: token lifetime.  A token that resolves to a user stops resolving to
\* that user only in a step that is a successful logout presenting that token
\* or a successful login of that user; no other request, failed or successful,
\* of that user or of anyone else, ends it.
TokenLifetime ==
    [][ \A t \in 1..MaxTokens :
           ( /\ get_user_id_from_token(BearerHeader(t)) # 0
             /\ get_user_id_from_token(BearerHeader(t))'
                   # get_user_id_from_token(BearerHeader(t)) )
           => \/ /\ resp'.op = "logout"
                 /\ resp'.status = 200
                 /\ resp'.auth = BearerHeader(t)
              \/ /\ resp'.op = "login"
                 /\ resp'.status = 200
                 /\ resp'.token # t
                 /\ resp'.user_id = get_user_id_from_token(BearerHeader(t))
      ]_vars

\* C17 witness: another user has logged in and out again and contacts are
\* stored, and the first token issued still resolves to its user
TokenLifetimeWitness ==
    /\ resp.op = "logout"
    /\ resp.status = 200
    /\ resp.auth = BearerHeader(2)
    /\ get_user_id_from_token(BearerHeader(1)) \notin {0, resp.uid}
    /\ contacts # {}

\* C18: the phone race.  An insert of a contact whose pre-check has passed is
\* committed whatever the table holds by then: the commit answers 200 and adds
\* a contact of the caller carrying the phone, all other rows staying.  So two
\* requests of one owner with one phone that both pass the pre-check before
\* either inserts both succeed.
PhoneRace ==
    [][ \A c \in Clients :
           (conn[c].pc = "add_inserted" /\ conn'[c].pc = "idle") =>
              /\ resp'.status = 200
              /\ contacts \subseteq contacts'
              /\ \E new \in contacts' \ contacts :
                    /\ new.id = resp'.id
                    /\ new.user_id = conn[c].user_id
                    /\ new.phone = Strip(conn[c].row.phone)
      ]_vars

\* C18 witness: two contacts of one owner carry the same phone, and the
\* request answered last sent exactly that phone and succeeded
PhoneRaceWitness ==
    /\ resp.op = "add"
    /\ resp.status = 200
    /\ \E c1, c2 \in contacts :
          /\ c1.id # c2.id
          /\ c1.user_id = c2.user_id
          /\ c1.phone = c2.phone
          /\ c1.phone = resp.body.phone
          /\ c2.id = resp.id

\* C19: username uniqueness under races.  No two stored users have the same
\* username; a registration whose username was committed by another request
\* after its pre-check passed is answered with an error and creates no user.
UsernameUnique ==
    /\ [](\A u1, u2 \in users : u1.username = u2.username => u1.id = u2.id)
    /\ [][ \A c \in Clients :
              ( /\ conn[c].pc = "reg_checked"
                /\ conn'[c].pc # "reg_checked"
                /\ \E u \in users : u.username = conn[c].row.username )
              => /\ conn'[c].pc = "idle"
                 /\ resp'.op = "register"
                 /\ resp'.status = 500
                 /\ UNCHANGED << users, user_seq >>
         ]_vars

\* C19 witness: a registration that had passed the pre-check was answered 500
\* with no write transaction open, the username being stored by then
UsernameUniqueWitness ==
    /\ resp.op = "register"
    /\ resp.status = 500
    /\ lock = 0
    /\ \A c \in Clients : conn[c].pc = "idle"
    /\ \E u \in users : u.username = resp.username

\* C20: the frame of an update.  An update that succeeds leaves users and
\* tokens as they were, keeps every contact's id, owner and creation time,
\* leaves every contact other than the one named unchanged, and gives the named
\* contact the trimmed fields of the request; and no step of any kind changes
\* the owner or the creation time of a contact that stays stored.
UpdateFrame ==
    [][ /\ (resp' # resp /\ resp'.op = "update" /\ resp'.status = 200) =>
              /\ UNCHANGED << users, user_seq, auth_tokens, issued, contact_seq >>
              /\ { c.id : c \in contacts' } = { c.id : c \in contacts }
              /\ Cardinality(contacts') = Cardinality(contacts)
              /\ \A c \in contacts : c.id # resp'.cid => c \in contacts'
              /\ \E old \in contacts, new \in contacts' :
                    /\ old.id = resp'.cid /\ new.id = resp'.cid
                    /\ old.user_id = resp'.uid
                    /\ new.user_id = old.user_id
                    /\ new.created_at = old.created_at
                    /\ new.name = Strip(resp'.body.name)
                    /\ new.phone = Strip(resp'.body.phone)
                    /\ new.email = Strip(GetDefault(resp'.body.email))
                    /\ new.address = Strip(GetDefault(resp'.body.address))
        /\ \A old \in contacts, new \in contacts' :
              old.id = new.id =>
                 new.user_id = old.user_id /\ new.created_at = old.created_at
      ]_vars

\* C20 witness: an update changed the phone of one of two contacts of the
\* caller, the other keeping its own phone
UpdateFrameWitness ==
    /\ resp.op = "update"
    /\ resp.status = 200
    /\ \E c1, c2 \in contacts :
          /\ c1.id = resp.cid
          /\ c2.id # resp.cid
          /\ c2.user_id = c1.user_id
          /\ c1.created_at > c2.created_at
          /\ c1.phone = <<"2">>
          /\ c2.phone = <<"1">>

====
